---- MODULE Spec2Model ----
(***************************************************************************)
(* A model of the two utilities of the repository:                         *)
(*   merge_pdfs.py       natural_sort_key, merge_pdfs_in_folder, main      *)
(*   add_titles_to_pdfs.py  the directory scan of                          *)
(*                       process_pdfs_in_directory, get_font_size_from_user*)
(* Strings are sequences of one-character strings.  The PDF library        *)
(* (PdfReader, PdfMerger) and the file system are the environment: each    *)
(* call that can raise is a nondeterministic choice between its outcomes.  *)
(* The file-name matching is that of a POSIX host (case-sensitive).        *)
(***************************************************************************)
EXTENDS Integers, Sequences, FiniteSets, TLC

VARIABLES
    \* ---- merge_pdfs.py: one process run after the other on one folder
    pc,            \* position of the running process
    argc,          \* len(sys.argv)
    dirExists,     \* os.path.isdir(folder_path)
    fs,            \* the folder: file name -> [kind, pages]
    globbed,       \* the names of the first value of pdf_files (the glob)
    pdf_files,     \* the list pdf_files
    idx,           \* index of the loop variable pdf in pdf_files
    file_handles,  \* the list file_handles (names of the opened files)
    closed,        \* the indices of file_handles whose handle is closed
    merger,        \* the PdfMerger: [made, pages, closed]
    attempted,     \* files for which open() was called
    readOk,        \* files whose reader was appended
    warned,        \* files reported by the [WARNING] line
    writeState,    \* "none", "ok" or "failed": merger.write
    exitCode,      \* -1 while running, else the process exit status
    \* ---- natural_sort_key and list.sort on their own
    sortIn,        \* a list of file names, in enumeration order
    sortOut,       \* the result of sorting it: [err, list]
    sortPhase,     \* "in", "sorted", "resorted"
    \* ---- the directory scans of the two tools
    scanDir,       \* a folder: file name -> kind
    scanPhase,     \* "in", "merge", "stamp"
    scanResult,    \* the list of names a scan produced
    \* ---- get_font_size_from_user
    fontPc,        \* "prompt", "confirm", "returned"
    fontInput,     \* the last response to the font-size prompt
    fontSize,      \* font_size of the current iteration, 0 if not assigned
    fontConfirm,   \* confirm of the current iteration, empty if not asked
    fontReturn,    \* the returned value, 0 before the return
    fontAnswered   \* whether a response to the font-size prompt was read

mergeVars == <<pc, argc, dirExists, fs, globbed, pdf_files, idx, file_handles, closed,
               merger, attempted, readOk, warned, writeState, exitCode>>
sortVars  == <<sortIn, sortOut, sortPhase>>
scanVars  == <<scanDir, scanPhase, scanResult>>
fontVars  == <<fontPc, fontInput, fontSize, fontConfirm, fontReturn, fontAnswered>>
vars      == <<mergeVars, sortVars, scanVars, fontVars>>

-----------------------------------------------------------------------------
(* Characters.                                                             *)

Upper == <<"A","B","C","D","E","F","G","H","I","J","K","L","M",
           "N","O","P","Q","R","S","T","U","V","W","X","Y","Z">>
LowerCase == <<"a","b","c","d","e","f","g","h","i","j","k","l","m",
               "n","o","p","q","r","s","t","u","v","w","x","y","z">>
Decimals == <<"0","1","2","3","4","5","6","7","8","9">>

IndexIn(c, t) == IF \E i \in 1..Len(t) : t[i] = c
                 THEN CHOOSE i \in 1..Len(t) : t[i] = c
                 ELSE 0

\* \d of the re module: a decimal digit.
IsDecimal(c) == IndexIn(c, Decimals) > 0

\* One character of str.isdigit(): the decimal digits and the other
\* characters of numeric type Digit, such as SUPERSCRIPT TWO, the one
\* character written "U+00B2" here.
IsDigitChar(c) == IsDecimal(c) \/ c = "U+00B2"

DigitValue(c) == IndexIn(c, Decimals) - 1

\* str.lower() on one character.
LowerChar(c) == IF IndexIn(c, Upper) > 0 THEN LowerCase[IndexIn(c, Upper)] ELSE c

\* ord(): the code point, which orders str values.
Ord(c) ==
    IF IndexIn(c, Upper) > 0 THEN 64 + IndexIn(c, Upper)
    ELSE IF IndexIn(c, LowerCase) > 0 THEN 96 + IndexIn(c, LowerCase)
    ELSE IF IsDecimal(c) THEN 48 + DigitValue(c)
    ELSE CASE c = " " -> 32
           [] c = "+" -> 43
           [] c = "-" -> 45
           [] c = "." -> 46
           [] c = "_" -> 95
           [] c = "U+00B2" -> 178
           [] OTHER   -> 255

Lower(s) == [i \in 1..Len(s) |-> LowerChar(s[i])]

\* str.isdigit(): non-empty and every character a digit.
IsDigitStr(s) == Len(s) > 0 /\ \A i \in 1..Len(s) : IsDigitChar(s[i])

IsDecimalStr(s) == Len(s) > 0 /\ \A i \in 1..Len(s) : IsDecimal(s[i])

RECURSIVE DecimalValue(_)
DecimalValue(s) ==
    IF Len(s) = 0 THEN 0
    ELSE 10 * DecimalValue(SubSeq(s, 1, Len(s) - 1)) + DigitValue(s[Len(s)])

\* Comparison of two str values: -1, 0, 1.
RECURSIVE StrCmp(_, _)
StrCmp(a, b) ==
    IF Len(a) = 0 /\ Len(b) = 0 THEN 0
    ELSE IF Len(a) = 0 THEN -1
    ELSE IF Len(b) = 0 THEN 1
    ELSE IF Ord(a[1]) < Ord(b[1]) THEN -1
    ELSE IF Ord(a[1]) > Ord(b[1]) THEN 1
    ELSE StrCmp(Tail(a), Tail(b))

-----------------------------------------------------------------------------
(* natural_sort_key.                                                       *)

\* re.split(r'(\d+)', s): the text between the maximal runs of decimal
\* digits, and the runs themselves, alternating.
RECURSIVE ReSplit(_)
ReSplit(s) ==
    IF \A i \in 1..Len(s) : ~IsDecimal(s[i]) THEN <<s>>
    ELSE LET i == CHOOSE k \in 1..Len(s) :
                      IsDecimal(s[k]) /\ \A m \in 1..(k-1) : ~IsDecimal(s[m])
             j == CHOOSE k \in i..Len(s) :
                      /\ \A m \in i..k : IsDecimal(s[m])
                      /\ (k = Len(s) \/ ~IsDecimal(s[k+1]))
         IN  <<SubSeq(s, 1, i-1), SubSeq(s, i, j)>>
                 \o ReSplit(SubSeq(s, j+1, Len(s)))

StrToken(s) == [int |-> FALSE, s |-> s, n |-> 0]
IntToken(n) == [int |-> TRUE, s |-> <<>>, n |-> n]

\* int(part) raises ValueError unless every character is a decimal digit.
PartRaises(part) == IsDigitStr(part) /\ ~IsDecimalStr(part)

ConvertPart(part) ==
    IF IsDigitStr(part) THEN IntToken(DecimalValue(part))
    ELSE StrToken(Lower(part))

\* os.path.basename of a path of the folder.
Path(folder, name) == [folder |-> folder, name |-> name]
basename(p) == p.name

\* The key of a path: [err, key]; err is "ValueError" when int() raises.
natural_sort_key(p) ==
    LET parts == ReSplit(basename(p))
    IN  IF \E i \in 1..Len(parts) : PartRaises(parts[i])
        THEN [err |-> "ValueError", key |-> <<>>]
        ELSE [err |-> "none",
              key |-> [i \in 1..Len(parts) |-> ConvertPart(parts[i])]]

\* Comparison of two tokens: -1, 0, 1, or 2 for the TypeError of comparing
\* a str with an int.
TokenCmp(a, b) ==
    IF a.int /= b.int THEN 2
    ELSE IF a.int THEN (IF a.n < b.n THEN -1 ELSE IF a.n > b.n THEN 1 ELSE 0)
    ELSE StrCmp(a.s, b.s)

\* Comparison of two keys as Python compares lists: the first position with
\* unequal elements decides, else the lengths.
RECURSIVE KeyCmp(_, _)
KeyCmp(a, b) ==
    IF Len(a) = 0 /\ Len(b) = 0 THEN 0
    ELSE IF Len(a) = 0 THEN -1
    ELSE IF Len(b) = 0 THEN 1
    ELSE IF a[1] = b[1] THEN KeyCmp(Tail(a), Tail(b))
    ELSE TokenCmp(a[1], b[1])

\* list.sort(key=natural_sort_key): every key is computed first, then the
\* list is sorted stably.  Insert x after the elements that are not greater.
RECURSIVE InsertSorted(_, _)
InsertSorted(x, t) ==
    IF Len(t) = 0 THEN <<x>>
    ELSE IF KeyCmp(natural_sort_key(x).key, natural_sort_key(t[1]).key) = -1
         THEN <<x>> \o t
         ELSE <<t[1]>> \o InsertSorted(x, Tail(t))

RECURSIVE StableSort(_)
StableSort(t) ==
    IF Len(t) = 0 THEN <<>>
    ELSE InsertSorted(t[Len(t)], StableSort(SubSeq(t, 1, Len(t) - 1)))

KeysRaise(t) == \E i \in 1..Len(t) : natural_sort_key(t[i]).err /= "none"

KeysMismatch(t) ==
    \E i, j \in 1..Len(t) :
        KeyCmp(natural_sort_key(t[i]).key, natural_sort_key(t[j]).key) = 2

\* The list left in enumeration order.
SortFilesUnsorted(t) ==
    IF KeysRaise(t) THEN [err |-> "ValueError", list |-> t]
    ELSE [err |-> "none", list |-> t]

\* The outcome of pdf_files.sort(key=natural_sort_key).
SortFiles(t) ==
    IF KeysRaise(t) THEN [err |-> "ValueError", list |-> t]
    ELSE IF KeysMismatch(t) THEN [err |-> "TypeError", list |-> t]
    ELSE [err |-> "none", list |-> StableSort(t)]

-----------------------------------------------------------------------------
(* The sort on its own: a list of distinct file names of one folder, in    *)
(* the order the enumeration returned them, is sorted, and sorted again.   *)

MaxStemLen == 3
MaxSortLen == 2

StemChars == {"a", "A", "0", "1", "9", "U+00B2"}
PdfExt == <<".", "p", "d", "f">>

SeqsUpTo(S, n) == UNION {[1..k -> S] : k \in 0..n}

Stems == SeqsUpTo(StemChars, MaxStemLen) \ {<<>>}
SortNames == {st \o PdfExt : st \in Stems}

Distinct(t) == \A i, j \in 1..Len(t) : i /= j => t[i] /= t[j]

Folder == "folder"
PathsOf(t) == [i \in 1..Len(t) |-> Path(Folder, t[i])]
NamesOf(t) == [i \in 1..Len(t) |-> basename(t[i])]

NoSort == [err |-> "none", list |-> <<>>]

SortList ==
    /\ sortPhase = "in"
    /\ sortOut' = SortFiles(PathsOf(sortIn))
    /\ sortPhase' = "sorted"
    /\ UNCHANGED <<sortIn, mergeVars, scanVars, fontVars>>

SortAgain ==
    /\ sortPhase = "sorted"
    /\ sortOut.err = "none"
    /\ sortOut' = SortFiles(sortOut.list)
    /\ sortPhase' = "resorted"
    /\ UNCHANGED <<sortIn, mergeVars, scanVars, fontVars>>

-----------------------------------------------------------------------------
(* merge_pdfs.py: main and merge_pdfs_in_folder.                           *)

MaxFiles == 3

\* output_name, "ALL.pdf" by default.
OutputName == <<"A", "L", "L", ".", "p", "d", "f">>

\* The directory entries a folder is drawn from: regular files of one to
\* three pages and a subdirectory.
MergeEntries ==
    { [name |-> <<"2">> \o PdfExt,            kind |-> "file", pages |-> 2],
      [name |-> <<"1", "0">> \o PdfExt,       kind |-> "file", pages |-> 1],
      [name |-> <<"a", "1">> \o PdfExt,       kind |-> "file", pages |-> 1],
      [name |-> <<"A", "1">> \o PdfExt,       kind |-> "file", pages |-> 3],
      [name |-> <<"U+00B2", "1">> \o PdfExt,  kind |-> "file", pages |-> 1],
      [name |-> <<"b", ".", "P", "D", "F">>,  kind |-> "file", pages |-> 2],
      [name |-> <<"d">> \o PdfExt,            kind |-> "dir",  pages |-> 0] }

PagesOf(name, n) == [i \in 1..n |-> [src |-> name, no |-> i]]

\* The folders: at most MaxFiles entries.
Folders == {E \in SUBSET MergeEntries : Cardinality(E) <= MaxFiles}

FolderOf(E) ==
    [nm \in {e.name : e \in E} |->
        LET e == CHOOSE x \in E : x.name = nm
        IN  [kind |-> e.kind, pages |-> PagesOf(nm, e.pages)]]

EndsWith(s, suffix) ==
    /\ Len(s) >= Len(suffix)
    /\ SubSeq(s, Len(s) - Len(suffix) + 1, Len(s)) = suffix

\* fnmatch of a name against "*.pdf" as glob.glob applies it: the case
\* counts, and a name that starts with a dot is hidden from "*".
GlobMatchesPdf(name) == EndsWith(name, PdfExt) /\ name[1] /= "."

\* [f for f in glob.glob(pattern) if os.path.isfile(f)], as a set of names.
GlobFiles(dir) ==
    {nm \in DOMAIN dir : GlobMatchesPdf(nm) /\ dir[nm].kind = "file"}

\* os.path.abspath of a path of the folder.
abspath(p) == <<p.folder, p.name>>

\* The comparison with the output path left out.
ExcludeNothing(S) == S

\* The names kept by the comparison with the output path.
ExcludeOutput(S) ==
    {nm \in S : abspath(Path(Folder, nm)) /= abspath(Path(Folder, OutputName))}

\* The orders in which the enumeration may return a set of names.
Enumerations(S) ==
    {t \in [1..Cardinality(S) -> S] : \A i, j \in 1..Cardinality(S) : i /= j => t[i] /= t[j]}

Range(t) == {t[i] : i \in 1..Len(t)}

NoMerger == [made |-> FALSE, pages |-> <<>>, closed |-> FALSE]

RunInit ==
    /\ pc = "start"
    /\ globbed = {}
    /\ pdf_files = <<>>
    /\ idx = 0
    /\ file_handles = <<>>
    /\ closed = {}
    /\ merger = NoMerger
    /\ attempted = {}
    /\ readOk = {}
    /\ warned = {}
    /\ writeState = "none"
    /\ exitCode = -1

\* main: a wrong argument count prints the usage and exits with 1.
Usage ==
    /\ pc = "start"
    /\ argc /= 2
    /\ pc' = "exited"
    /\ exitCode' = 1
    /\ UNCHANGED <<argc, dirExists, globbed, fs, pdf_files, idx, file_handles, closed,
                   merger, attempted, readOk, warned, writeState>>
    /\ UNCHANGED <<sortVars, scanVars, fontVars>>

\* The folder is not a directory: exit with 1.
NoDirectory ==
    /\ pc = "start"
    /\ argc = 2
    /\ ~dirExists
    /\ pc' = "exited"
    /\ exitCode' = 1
    /\ UNCHANGED <<argc, dirExists, globbed, fs, pdf_files, idx, file_handles, closed,
                   merger, attempted, readOk, warned, writeState>>
    /\ UNCHANGED <<sortVars, scanVars, fontVars>>

InputSet(dir) == ExcludeOutput(GlobFiles(dir))

\* No input file is left: exit with 0.
NoInput ==
    /\ pc = "start"
    /\ argc = 2
    /\ dirExists
    /\ InputSet(fs) = {}
    /\ pc' = "exited"
    /\ exitCode' = 0
    /\ globbed' = GlobFiles(fs)
    /\ UNCHANGED <<argc, dirExists, fs, pdf_files, idx, file_handles, closed,
                   merger, attempted, readOk, warned, writeState>>
    /\ UNCHANGED <<sortVars, scanVars, fontVars>>

\* pdf_files.sort raises: the exception leaves main, the interpreter prints
\* the traceback and exits with 1.
SortRaises ==
    /\ pc = "start"
    /\ argc = 2
    /\ dirExists
    /\ InputSet(fs) /= {}
    /\ \E enum \in Enumerations(InputSet(fs)) :
          /\ SortFiles(PathsOf(enum)).err /= "none"
          /\ pdf_files' = PathsOf(enum)
    /\ pc' = "exited"
    /\ exitCode' = 1
    /\ globbed' = GlobFiles(fs)
    /\ UNCHANGED <<argc, dirExists, fs, idx, file_handles, closed,
                   merger, attempted, readOk, warned, writeState>>
    /\ UNCHANGED <<sortVars, scanVars, fontVars>>

\* The list is sorted, the merger and the list of handles are created.
Prepare ==
    /\ pc = "start"
    /\ argc = 2
    /\ dirExists
    /\ InputSet(fs) /= {}
    /\ \E enum \in Enumerations(InputSet(fs)) :
          /\ SortFiles(PathsOf(enum)).err = "none"
          /\ pdf_files' = SortFiles(PathsOf(enum)).list
    /\ merger' = [made |-> TRUE, pages |-> <<>>, closed |-> FALSE]
    /\ file_handles' = <<>>
    /\ idx' = 1
    /\ pc' = "loop"
    /\ globbed' = GlobFiles(fs)
    /\ UNCHANGED <<argc, dirExists, fs, closed, attempted, readOk, warned,
                   writeState, exitCode>>
    /\ UNCHANGED <<sortVars, scanVars, fontVars>>

\* f = open(pdf, 'rb'); file_handles.append(f)
OpenOk ==
    /\ pc = "loop"
    /\ idx <= Len(pdf_files)
    /\ attempted' = attempted \cup {basename(pdf_files[idx])}
    /\ file_handles' = Append(file_handles, basename(pdf_files[idx]))
    /\ pc' = "parse"
    /\ UNCHANGED <<argc, dirExists, globbed, fs, pdf_files, idx, closed, merger,
                   readOk, warned, writeState, exitCode>>
    /\ UNCHANGED <<sortVars, scanVars, fontVars>>

\* open raises (OSError): the statement is outside the inner try, so the
\* outer handler prints "Failed to write merged PDF" and the loop is left.
OpenRaises ==
    /\ pc = "loop"
    /\ idx <= Len(pdf_files)
    /\ attempted' = attempted \cup {basename(pdf_files[idx])}
    /\ pc' = "finally"
    /\ UNCHANGED <<argc, dirExists, globbed, fs, pdf_files, idx, file_handles, closed,
                   merger, readOk, warned, writeState, exitCode>>
    /\ UNCHANGED <<sortVars, scanVars, fontVars>>

\* The append with the handle closed right after it (a with-block around
\* the open).
AppendOkClosing ==
    /\ pc = "parse"
    /\ merger' = [merger EXCEPT !.pages = @ \o fs[basename(pdf_files[idx])].pages]
    /\ readOk' = readOk \cup {basename(pdf_files[idx])}
    /\ closed' = closed \cup {Len(file_handles)}
    /\ idx' = idx + 1
    /\ pc' = "loop"
    /\ UNCHANGED <<argc, dirExists, globbed, fs, pdf_files, file_handles,
                   attempted, warned, writeState, exitCode>>
    /\ UNCHANGED <<sortVars, scanVars, fontVars>>

\* reader = PdfReader(f, strict=False); merger.append(reader): the merger
\* takes the pages of a source in one step, after it has read them all.
AppendOk ==
    /\ pc = "parse"
    /\ merger' = [merger EXCEPT !.pages = @ \o fs[basename(pdf_files[idx])].pages]
    /\ readOk' = readOk \cup {basename(pdf_files[idx])}
    /\ idx' = idx + 1
    /\ pc' = "loop"
    /\ UNCHANGED <<argc, dirExists, globbed, fs, pdf_files, file_handles, closed,
                   attempted, warned, writeState, exitCode>>
    /\ UNCHANGED <<sortVars, scanVars, fontVars>>

\* The reader or the append raises: the warning is printed, the file skipped.
AppendRaises ==
    /\ pc = "parse"
    /\ warned' = warned \cup {basename(pdf_files[idx])}
    /\ idx' = idx + 1
    /\ pc' = "loop"
    /\ UNCHANGED <<argc, dirExists, globbed, fs, pdf_files, file_handles, closed,
                   merger, attempted, readOk, writeState, exitCode>>
    /\ UNCHANGED <<sortVars, scanVars, fontVars>>

\* merger.write(output_path) returns.
WriteOk ==
    /\ pc = "loop"
    /\ idx > Len(pdf_files)
    /\ fs' = [nm \in DOMAIN fs \cup {OutputName} |->
                 IF nm = OutputName THEN [kind |-> "file", pages |-> merger.pages]
                 ELSE fs[nm]]
    /\ writeState' = "ok"
    /\ pc' = "finally"
    /\ UNCHANGED <<argc, dirExists, globbed, pdf_files, idx, file_handles, closed,
                   merger, attempted, readOk, warned, exitCode>>
    /\ UNCHANGED <<sortVars, scanVars, fontVars>>

\* merger.write raises: the output is untouched or left truncated; the
\* outer handler prints the failure.
WriteRaises ==
    /\ pc = "loop"
    /\ idx > Len(pdf_files)
    /\ \E truncated \in BOOLEAN :
          fs' = IF truncated
                THEN [nm \in DOMAIN fs \cup {OutputName} |->
                         IF nm = OutputName THEN [kind |-> "file", pages |-> <<>>]
                         ELSE fs[nm]]
                ELSE fs
    /\ writeState' = "failed"
    /\ pc' = "finally"
    /\ UNCHANGED <<argc, dirExists, globbed, pdf_files, idx, file_handles, closed,
                   merger, attempted, readOk, warned, exitCode>>
    /\ UNCHANGED <<sortVars, scanVars, fontVars>>

\* finally: merger.close()
CloseMerger ==
    /\ pc = "finally"
    /\ merger' = [merger EXCEPT !.closed = TRUE]
    /\ pc' = "closing"
    /\ UNCHANGED <<argc, dirExists, globbed, fs, pdf_files, idx, file_handles, closed,
                   attempted, readOk, warned, writeState, exitCode>>
    /\ UNCHANGED <<sortVars, scanVars, fontVars>>

\* finally: every handle of file_handles is closed; the function and main
\* return and the process exits with 0.
CloseHandles ==
    /\ pc = "closing"
    /\ closed' = 1..Len(file_handles)
    /\ pc' = "exited"
    /\ exitCode' = 0
    /\ UNCHANGED <<argc, dirExists, globbed, fs, pdf_files, idx, file_handles, merger,
                   attempted, readOk, warned, writeState>>
    /\ UNCHANGED <<sortVars, scanVars, fontVars>>

\* The tool is run again on the same folder with the same arguments.
Rerun ==
    /\ pc = "exited"
    /\ pc' = "start"
    /\ globbed' = {}
    /\ pdf_files' = <<>>
    /\ idx' = 0
    /\ file_handles' = <<>>
    /\ closed' = {}
    /\ merger' = NoMerger
    /\ attempted' = {}
    /\ readOk' = {}
    /\ warned' = {}
    /\ writeState' = "none"
    /\ exitCode' = -1
    /\ UNCHANGED <<argc, dirExists, fs>>
    /\ UNCHANGED <<sortVars, scanVars, fontVars>>

SortIdle == sortIn = <<>> /\ sortOut = NoSort /\ sortPhase = "off"
ScanIdle == scanDir = <<>> /\ scanPhase = "off" /\ scanResult = <<>>
FontIdle ==
    /\ fontPc = "off"
    /\ fontInput = <<>>
    /\ fontSize = 0
    /\ fontConfirm = <<>>
    /\ fontReturn = 0
    /\ fontAnswered = FALSE
MergeIdle ==
    /\ RunInit
    /\ argc = 2
    /\ dirExists = TRUE
    /\ fs = <<>>

Init ==
    /\ RunInit
    /\ \/ argc \in {1, 3} /\ dirExists = TRUE /\ fs = <<>>
       \/ argc = 2 /\ dirExists = FALSE /\ fs = <<>>
       \/ argc = 2 /\ dirExists = TRUE /\ \E f \in Folders : fs = FolderOf(f)
    /\ SortIdle
    /\ ScanIdle
    /\ FontIdle

Next ==
    \/ Usage
    \/ NoDirectory
    \/ NoInput
    \/ SortRaises
    \/ Prepare
    \/ OpenOk
    \/ OpenRaises
    \/ AppendOk
    \/ AppendRaises
    \/ WriteOk
    \/ WriteRaises
    \/ CloseMerger
    \/ CloseHandles
    \/ Rerun

Spec == Init /\ [][Next]_vars

InitSort ==
    /\ MergeIdle
    /\ ScanIdle
    /\ FontIdle
    /\ sortIn \in {t \in SeqsUpTo(SortNames, MaxSortLen) : Len(t) > 0 /\ Distinct(t)}
    /\ sortOut = NoSort
    /\ sortPhase = "in"

NextSort == SortList \/ SortAgain

SpecSort == InitSort /\ [][NextSort]_vars

-----------------------------------------------------------------------------
(* The directory scans of the two tools on one folder.                     *)

PdfExtUpper == <<".", "P", "D", "F">>
Titled == <<"t", "i", "t", "l", "e", "d">>

\* The names an entry of the scanned folder may have.
ScanNames ==
    { <<"a">> \o PdfExt,
      <<"a">> \o PdfExtUpper,
      <<"a", ".", "P", "d", "f">>,
      <<"a", ".", "t", "x", "t">>,
      <<".", "a">> \o PdfExt }

Entry(kind) == [kind |-> kind, pages |-> <<>>]

\* The folders to scan: every name absent, a regular file or a directory,
\* and a subdirectory "sub" that holds a.pdf or does not exist.
ScanFolders ==
    { [top |-> [nm \in DOMAIN k |-> Entry(k[nm])], sub |-> sb] :
        k \in UNION {[N -> {"file", "dir"}] : N \in SUBSET ScanNames},
        sb \in {{}, {<<"a">> \o PdfExt}} }

\* Path.glob("*" + ext): the direct entries whose name ends in ext, hidden
\* ones and directories included.
PathGlob(dir, ext) == {nm \in DOMAIN dir : EndsWith(nm, ext)}

\* output_dir.mkdir(exist_ok=True)
MkdirTitled(dir) ==
    [nm \in DOMAIN dir \cup {Titled} |->
        IF nm \in DOMAIN dir THEN dir[nm] ELSE Entry("dir")]

\* merge_pdfs_in_folder: the input set, in the order of the enumeration.
MergeScan ==
    /\ scanPhase = "in"
    /\ \E enum \in Enumerations(InputSet(scanDir.top)) : scanResult' = enum
    /\ scanPhase' = "merge"
    /\ UNCHANGED <<scanDir, mergeVars, sortVars, fontVars>>

\* process_pdfs_in_directory: the titled directory is made, then
\* pdf_files = list(path.glob("*.pdf")) + list(path.glob("*.PDF")).
StamperScan ==
    /\ scanPhase = "in"
    /\ scanDir' = [scanDir EXCEPT !.top = MkdirTitled(@)]
    /\ \E e1 \in Enumerations(PathGlob(MkdirTitled(scanDir.top), PdfExt)),
          e2 \in Enumerations(PathGlob(MkdirTitled(scanDir.top), PdfExtUpper)) :
            scanResult' = e1 \o e2
    /\ scanPhase' = "stamp"
    /\ UNCHANGED <<mergeVars, sortVars, fontVars>>

InitScan ==
    /\ MergeIdle
    /\ SortIdle
    /\ FontIdle
    /\ scanDir \in ScanFolders
    /\ scanPhase = "in"
    /\ scanResult = <<>>

NextScan == MergeScan \/ StamperScan

SpecScan == InitScan /\ [][NextScan]_vars

-----------------------------------------------------------------------------
(* get_font_size_from_user.                                                *)

MaxInputLen == 3
MaxConfirmLen == 2
DefaultFontSize == 30
LargeFontSize == 200

FontChars == {" ", "-", "0", "2", "a"}
ConfirmChars == {"Y", "n", " "}

IsSpace(c) == c = " "

\* str.strip()
RECURSIVE LStrip(_)
LStrip(s) == IF Len(s) > 0 /\ IsSpace(s[1]) THEN LStrip(Tail(s)) ELSE s
RECURSIVE RStrip(_)
RStrip(s) ==
    IF Len(s) > 0 /\ IsSpace(s[Len(s)]) THEN RStrip(SubSeq(s, 1, Len(s) - 1)) ELSE s
Strip(s) == RStrip(LStrip(s))

\* The digits of an int literal: decimal digits, single underscores between.
DigitsOk(s) ==
    /\ Len(s) > 0
    /\ \A i \in 1..Len(s) : IsDecimal(s[i]) \/ s[i] = "_"
    /\ s[1] /= "_" /\ s[Len(s)] /= "_"
    /\ \A i \in 1..(Len(s) - 1) : ~(s[i] = "_" /\ s[i+1] = "_")

RECURSIVE DropUnderscores(_)
DropUnderscores(s) ==
    IF Len(s) = 0 THEN <<>>
    ELSE IF s[1] = "_" THEN DropUnderscores(Tail(s))
    ELSE <<s[1]>> \o DropUnderscores(Tail(s))

\* int(s): [ok, val]; ok is FALSE for the ValueError.
ParseInt(s) ==
    LET t    == Strip(s)
        sign == Len(t) > 0 /\ t[1] \in {"+", "-"}
        body == IF sign THEN Tail(t) ELSE t
    IN  IF DigitsOk(body)
        THEN [ok |-> TRUE,
              val |-> IF sign /\ t[1] = "-"
                      THEN 0 - DecimalValue(DropUnderscores(body))
                      ELSE DecimalValue(DropUnderscores(body))]
        ELSE [ok |-> FALSE, val |-> 0]

FontResponses == SeqsUpTo(FontChars, MaxInputLen)
ConfirmResponses == SeqsUpTo(ConfirmChars, MaxConfirmLen)

\* An empty response: return 30.
PromptDefault ==
    /\ fontPc = "prompt"
    /\ \E r \in FontResponses :
          /\ Strip(r) = <<>>
          /\ fontInput' = r
    /\ fontAnswered' = TRUE
    /\ fontSize' = 0
    /\ fontConfirm' = <<>>
    /\ fontReturn' = DefaultFontSize
    /\ fontPc' = "returned"
    /\ UNCHANGED <<mergeVars, sortVars, scanVars>>

\* int() raises ValueError: the message is printed and the loop goes on.
PromptInvalid ==
    /\ fontPc = "prompt"
    /\ \E r \in FontResponses :
          /\ Strip(r) /= <<>>
          /\ ~ParseInt(Strip(r)).ok
          /\ fontInput' = r
    /\ fontAnswered' = TRUE
    /\ fontSize' = 0
    /\ fontConfirm' = <<>>
    /\ UNCHANGED <<fontPc, fontReturn>>
    /\ UNCHANGED <<mergeVars, sortVars, scanVars>>

\* font_size <= 0: the message is printed and the loop goes on.
PromptNotPositive ==
    /\ fontPc = "prompt"
    /\ \E r \in FontResponses :
          /\ Strip(r) /= <<>>
          /\ ParseInt(Strip(r)).ok
          /\ ParseInt(Strip(r)).val <= 0
          /\ fontInput' = r
          /\ fontSize' = ParseInt(Strip(r)).val
    /\ fontAnswered' = TRUE
    /\ fontConfirm' = <<>>
    /\ UNCHANGED <<fontPc, fontReturn>>
    /\ UNCHANGED <<mergeVars, sortVars, scanVars>>

\* font_size > 200: the confirmation is asked.
PromptLarge ==
    /\ fontPc = "prompt"
    /\ \E r \in FontResponses :
          /\ Strip(r) /= <<>>
          /\ ParseInt(Strip(r)).ok
          /\ ParseInt(Strip(r)).val > LargeFontSize
          /\ fontInput' = r
          /\ fontSize' = ParseInt(Strip(r)).val
    /\ fontAnswered' = TRUE
    /\ fontPc' = "confirm"
    /\ fontConfirm' = <<>>
    /\ UNCHANGED fontReturn
    /\ UNCHANGED <<mergeVars, sortVars, scanVars>>

\* 0 < font_size <= 200: return font_size.
PromptAccept ==
    /\ fontPc = "prompt"
    /\ \E r \in FontResponses :
          /\ Strip(r) /= <<>>
          /\ ParseInt(Strip(r)).ok
          /\ ParseInt(Strip(r)).val > 0
          /\ ParseInt(Strip(r)).val <= LargeFontSize
          /\ fontInput' = r
          /\ fontSize' = ParseInt(Strip(r)).val
          /\ fontReturn' = ParseInt(Strip(r)).val
    /\ fontAnswered' = TRUE
    /\ fontPc' = "returned"
    /\ fontConfirm' = <<>>
    /\ UNCHANGED <<mergeVars, sortVars, scanVars>>

\* The confirmation reads 'y': return font_size.
ConfirmYes ==
    /\ fontPc = "confirm"
    /\ \E c \in ConfirmResponses :
          /\ Lower(Strip(c)) = <<"y">>
          /\ fontConfirm' = c
    /\ fontReturn' = fontSize
    /\ fontPc' = "returned"
    /\ UNCHANGED <<fontInput, fontSize, fontAnswered>>
    /\ UNCHANGED <<mergeVars, sortVars, scanVars>>

\* The answer to the confirmation ignored: font_size is returned.
ConfirmNoReturns ==
    /\ fontPc = "confirm"
    /\ \E c \in ConfirmResponses :
          /\ Lower(Strip(c)) /= <<"y">>
          /\ fontConfirm' = c
    /\ fontReturn' = fontSize
    /\ fontPc' = "returned"
    /\ UNCHANGED <<fontInput, fontSize, fontAnswered>>
    /\ UNCHANGED <<mergeVars, sortVars, scanVars>>

\* Any other confirmation: the loop goes on with a new prompt.
ConfirmNo ==
    /\ fontPc = "confirm"
    /\ \E c \in ConfirmResponses :
          /\ Lower(Strip(c)) /= <<"y">>
          /\ fontConfirm' = c
    /\ fontPc' = "prompt"
    /\ UNCHANGED <<fontInput, fontSize, fontAnswered, fontReturn>>
    /\ UNCHANGED <<mergeVars, sortVars, scanVars>>

InitFont ==
    /\ MergeIdle
    /\ SortIdle
    /\ ScanIdle
    /\ fontPc = "prompt"
    /\ fontInput = <<>>
    /\ fontSize = 0
    /\ fontConfirm = <<>>
    /\ fontReturn = 0
    /\ fontAnswered = FALSE

NextFont ==
    \/ PromptDefault
    \/ PromptInvalid
    \/ PromptNotPositive
    \/ PromptLarge
    \/ PromptAccept
    \/ ConfirmYes
    \/ ConfirmNo

SpecFont == InitFont /\ [][NextFont]_vars

-----------------------------------------------------------------------------
(* Properties of merge_pdfs_in_folder, checked under Spec.                 *)

InputNames == Range(NamesOf(pdf_files))
Written == fs[OutputName].pages
KeyOf(nm) == natural_sort_key(Path(Folder, nm)).key

\* C1: once the directory exists and the input set is not empty, a failure
\* on one input file never aborts the merge: when the function is left,
\* open() was called for every file of the sorted list and merger.write was
\* called.
C1_NoFileAbortsMerge ==
    (pc = "exited" /\ merger.made) =>
        /\ attempted = InputNames
        /\ writeState /= "none"

\* C2: the document written holds exactly the pages of the input files that
\* were read, each file's pages in one block, the files in the order of
\* their keys; every input file was either read or skipped with a warning,
\* and a skipped file gives no page.
C2_WrittenIsReadablePagesInOrder ==
    writeState = "ok" =>
        /\ readOk \cup warned = InputSet(fs)
        /\ readOk \cap warned = {}
        /\ \A i \in 1..Len(Written) : Written[i].src \in readOk
        /\ Distinct(Written)
        /\ \A nm \in readOk :
              \E k \in 0..Len(Written) :
                  SubSeq(Written, k + 1, k + Len(fs[nm].pages)) = fs[nm].pages
        /\ \A i, j \in 1..Len(Written) :
              i < j => KeyCmp(KeyOf(Written[i].src), KeyOf(Written[j].src)) \in {-1, 0}

\* One file skipped with a warning and two files read, in a written output.
C2_Witness ==
    /\ writeState = "ok"
    /\ Cardinality(warned) = 1
    /\ Cardinality(readOk) = 2
    /\ \E nm \in readOk : Len(fs[nm].pages) = 2

\* C3: a handle is closed only when the write can no longer come: it has
\* returned or raised, or an open() failure has skipped it; and when the
\* function is left after the merger was created, every opened handle and
\* the merger are closed.
C3_HandlesOutliveWrite ==
    /\ closed /= {} =>
          /\ pc = "exited"
          /\ writeState /= "none" \/ attempted /= Range(file_handles)
    /\ (pc = "exited" /\ merger.made) =>
          /\ closed = 1..Len(file_handles)
          /\ merger.closed

\* Two handles closed after a write that raised.
C3_Witness ==
    /\ pc = "exited"
    /\ writeState = "failed"
    /\ Len(file_handles) >= 2
    /\ closed = 1..Len(file_handles)
    /\ merger.closed

\* C4: the exit status is 1 for a wrong argument count or a missing
\* directory and 0 in every other run; with no input file left no merge is
\* attempted and no output is created.
C4_ExitStatus ==
    exitCode /= -1 =>
        /\ (argc /= 2 \/ ~dirExists) => exitCode = 1
        /\ (argc = 2 /\ dirExists) => exitCode = 0
        /\ (argc = 2 /\ dirExists /\ InputSet(fs) = {}) =>
              ~merger.made /\ OutputName \notin DOMAIN fs

\* C5: the output file is never in the input set, and an output written
\* when an earlier output exists holds every page once, each read from a
\* source file in this run.
C5_OutputNeverAnInput ==
    /\ OutputName \notin InputNames
    /\ writeState = "ok" =>
          /\ Distinct(Written)
          /\ \A i \in 1..Len(Written) :
                Written[i].src \in readOk /\ Written[i].src /= OutputName
          /\ \A nm \in readOk : Range(fs[nm].pages) \subseteq Range(Written)

\* A run that found the output of an earlier run and wrote a new one.
C5_Witness ==
    /\ writeState = "ok"
    /\ OutputName \in globbed
    /\ Len(Written) >= 2

-----------------------------------------------------------------------------
(* Properties of natural_sort_key and the sort, checked under SpecSort.    *)

\* The places <<i, j, k>> at which f and g differ in one maximal run of
\* decimal digits only: f[i..j] and g[i..k] are the runs.
OneRunDiff(f, g) ==
    { w \in (1..Len(f)) \X (1..Len(f)) \X (1..Len(g)) :
        /\ w[1] <= w[2] /\ w[1] <= w[3]
        /\ SubSeq(f, 1, w[1] - 1) = SubSeq(g, 1, w[1] - 1)
        /\ IsDecimalStr(SubSeq(f, w[1], w[2]))
        /\ IsDecimalStr(SubSeq(g, w[1], w[3]))
        /\ SubSeq(f, w[1], w[2]) /= SubSeq(g, w[1], w[3])
        /\ SubSeq(f, w[2] + 1, Len(f)) = SubSeq(g, w[3] + 1, Len(g))
        /\ (w[1] = 1 \/ ~IsDecimal(f[w[1] - 1]))
        /\ (w[2] = Len(f) \/ ~IsDecimal(f[w[2] + 1])) }

\* C6: two file names that differ only in one embedded run of decimal
\* digits are sorted in the order of the numbers the runs stand for.
C6_NumericOrder ==
    (sortPhase = "sorted" /\ Len(sortIn) = 2) =>
        \A a, b \in 1..2 :
            \A w \in OneRunDiff(sortIn[a], sortIn[b]) :
                DecimalValue(SubSeq(sortIn[a], w[1], w[2]))
                    < DecimalValue(SubSeq(sortIn[b], w[1], w[3]))
                => /\ sortOut.err = "none"
                   /\ NamesOf(sortOut.list) = <<sortIn[a], sortIn[b]>>

\* C7: where the sort returns, its result does not depend on the order of
\* the enumeration, no two distinct file names have the same key, and
\* sorting the sorted list again changes nothing.
C7_OrderIsTotal ==
    /\ (sortPhase = "sorted" /\ sortOut.err = "none") =>
          /\ \A q \in Enumerations(Range(sortIn)) :
                SortFiles(PathsOf(q)).list = sortOut.list
          /\ \A i, j \in 1..Len(sortIn) :
                i /= j => KeyOf(sortIn[i]) /= KeyOf(sortIn[j])
    /\ sortPhase = "resorted" => sortOut = SortFiles(PathsOf(sortIn))

IsOdd(n) == n % 2 = 1

\* C10: for every file name the key is a list of odd length, a lowercase
\* str without a decimal digit at each even index (from 0), an int >= 0 at
\* each odd index; so no comparison of two keys meets a str and an int, and
\* the sort does not fail.
C10_KeyShape ==
    sortPhase = "sorted" =>
        /\ \A i \in 1..Len(sortIn) :
              LET r == natural_sort_key(Path(Folder, sortIn[i]))
              IN  /\ r.err = "none"
                  /\ IsOdd(Len(r.key))
                  /\ \A k \in 1..Len(r.key) :
                        IF IsOdd(k)
                        THEN /\ ~r.key[k].int
                             /\ r.key[k].s = Lower(r.key[k].s)
                             /\ \A m \in 1..Len(r.key[k].s) : ~IsDecimal(r.key[k].s[m])
                        ELSE r.key[k].int /\ r.key[k].n >= 0
        /\ ~KeysMismatch(PathsOf(sortIn))
        /\ sortOut.err = "none"

-----------------------------------------------------------------------------
(* Properties of the scans (SpecScan) and of the prompt (SpecFont).        *)

\* C8: the input set of each tool is exactly the regular files directly in
\* the folder whose name ends in .pdf in any letter case, each once.
C8_InputSetIsThePdfFiles ==
    scanPhase \in {"merge", "stamp"} =>
        /\ Distinct(scanResult)
        /\ Range(scanResult) =
              {nm \in DOMAIN scanDir.top :
                  scanDir.top[nm].kind = "file" /\ EndsWith(Lower(nm), PdfExt)}

\* The response as the user meant it: without the surrounding blanks.
Entered == Strip(fontInput)
IsNumber(s) == ParseInt(s).ok
Declined == Lower(Strip(fontConfirm)) /= <<"y">>

\* C9: the function returns 30 right after an empty response, or a positive
\* integer the user entered, one above 200 only with the confirmation
\* answered 'y'; after a response that is no number or not positive, and
\* after a declined confirmation, nothing is returned and the prompt is
\* shown again.
C9_FontSizeValidated ==
    /\ fontPc = "returned" =>
          \/ Entered = <<>> /\ fontReturn = DefaultFontSize
          \/ /\ Entered /= <<>>
             /\ IsNumber(Entered)
             /\ fontReturn = ParseInt(Entered).val
             /\ fontReturn > 0
             /\ fontReturn > LargeFontSize => ~Declined
    /\ (fontAnswered /\ Entered /= <<>> /\ (~IsNumber(Entered) \/ ParseInt(Entered).val <= 0)) =>
          fontPc = "prompt" /\ fontReturn = 0
    /\ (fontAnswered /\ fontPc /= "confirm" /\ IsNumber(Entered)
          /\ ParseInt(Entered).val > LargeFontSize /\ Declined) =>
          fontPc = "prompt" /\ fontReturn = 0
    /\ fontPc = "confirm" => fontReturn = 0 /\ fontSize > LargeFontSize

\* A large size was declined and the prompt is shown again.
C9_Witness ==
    /\ fontPc = "prompt"
    /\ fontAnswered
    /\ fontSize > LargeFontSize
    /\ fontConfirm = <<"n">>
    /\ fontReturn = 0
    /\ ParseInt(Entered).val = fontSize

====
